---- MODULE Spec2Model ----
(***************************************************************************)
(* picostring<StringT> (src/picostring.h): a reference-counted rope.       *)
(*                                                                         *)
(* The heap is a finite array of cells; a cell is a StringNode ("leaf"),   *)
(* a LinkNode ("link") or free.  A handle (a picostring object) is in      *)
(* scope or not, and holds s_, a node id or NULL.  Every public member     *)
(* function is one action.  The member functions' bodies and the private   *)
(* helpers (retain, release, destroy, flatten, ...) are operators on a     *)
(* "machine" record m that threads the heap through the call and logs      *)
(* what the call did: the cells it allocated and freed, in order, the      *)
(* units it copied, how deeply LinkNode::destroy was nested, what its       *)
(* vector deferred held at each turn, and where flatten copied each Leaf.  *)
(*                                                                         *)
(* refcnt_ is a size_t; its value is kept as the representative of its     *)
(* residue class nearest zero, so the all-ones value that "refcnt_--"      *)
(* leaves behind on a count of 0 is -1 and "refcnt_++" of it is 0 again.   *)
(*                                                                         *)
(* Build modelled: assertions enabled (the self test does not define       *)
(* NDEBUG), return values constructed in place (copy elision).  The two    *)
(* operands of a comparison are materialised left to right; the other      *)
(* order differs only in which free cell each new leaf takes.              *)
(*                                                                         *)
(* An intermediate result that is used more than once is handed to a       *)
(* helper operator as an argument (X(...) == XDone(Y(...), ...)).          *)
(***************************************************************************)
EXTENDS Integers, Sequences, FiniteSets, TLC

\* ---------------------------------------------------------------- bounds
NumHandles == 3      \* picostring objects a run of Spec constructs
NumOwners == 4       \* picostring objects a run of DestroySpec constructs
MaxNodes == 5        \* cells of the heap
MaxLen == 3          \* longest content a rope is allowed to reach
MaxPos == 3          \* largest pos / length argument of at and substr
SizeBits == 3        \* width of size_type, in bits

\* ------------------------------------------------------------- constants
NULL == 0            \* the null Node pointer
NUL == 0             \* char_type(), the fill unit of LinkNode::flatten

Handles == 1..NumHandles
Owners == 1..NumOwners
AllHandles == Handles \cup Owners
Nodes == 1..MaxNodes

\* the StringT values and raw buffers a caller passes in
StrArgs == {<<>>, <<1>>, <<2>>, <<1, 2>>}

\* size_type arithmetic: unsigned, modulo 2^w
SizeMod == 2 ^ SizeBits
Wrap(n) == n % SizeMod

Range(f) == {f[i] : i \in DOMAIN f}
Min(S) == CHOOSE x \in S : \A y \in S : x <= y

VARIABLES
    heap,      \* Nodes -> cell
    alive,     \* the handles in scope
    born,      \* how many handles the program has constructed so far
    s_,        \* AllHandles -> Nodes \cup {NULL}: picostring::s_
    fault      \* "none", or how the process died

vars == <<heap, alive, born, s_, fault>>

FreeCell ==
    [kind |-> "free", size |-> 0, refcnt |-> 0, left |-> NULL, right |-> NULL,
     s |-> <<>>, offset |-> 0]

EmptyHeap == [n \in Nodes |-> FreeCell]

\* ------------------------------------------------------- the machine record
Machine(hp) ==
    [heap |-> hp, allocs |-> <<>>, freed |-> <<>>, depth |-> 0, maxDepth |-> 0,
     copied |-> 0, stacks |-> <<>>, stackOk |-> TRUE, copies |-> <<>>,
     cursor |-> 0, fault |-> "none"]

Fail(m, why) == IF m.fault = "none" THEN [m EXCEPT !.fault = why] ELSE m

IsNode(m, n) == n \in Nodes /\ m.heap[n].kind # "free"

\* operator new takes a cell that was free when the call began and that the
\* call has not used since
FreshIds(m) ==
    {n \in Nodes : m.heap[n].kind = "free" /\ n \notin Range(m.freed)
                   /\ n \notin Range(m.allocs)}

NewCellAt(m, cell, n) ==
    [m |-> [m EXCEPT !.heap[n] = cell, !.allocs = Append(@, n)], node |-> n]

NewCell(m, cell) ==
    IF m.fault # "none" THEN [m |-> m, node |-> NULL]
    ELSE IF FreshIds(m) = {} THEN [m |-> Fail(m, "bad_alloc"), node |-> NULL]
    ELSE NewCellAt(m, cell, Min(FreshIds(m)))

\* operator delete
Delete(m, n) ==
    IF m.fault # "none" THEN m
    ELSE IF ~IsNode(m, n) THEN Fail(m, "double_free")
    ELSE [m EXCEPT !.heap[n] = FreeCell, !.freed = Append(@, n)]

\* Node::Node(size): size_(size), refcnt_(0)
NewStringNode(m, str, offset, length) ==
    NewCell(m, [kind |-> "leaf", size |-> length, refcnt |-> 0, left |-> NULL,
                right |-> NULL, s |-> str, offset |-> offset])

NewLinkNode(m, left, right) ==
    IF m.fault # "none" THEN [m |-> m, node |-> NULL]
    ELSE NewCell(m, [kind |-> "link",
                     size |-> Wrap(m.heap[left].size + m.heap[right].size),
                     refcnt |-> 0, left |-> left, right |-> right, s |-> <<>>,
                     offset |-> 0])

\* const Node* retain() const
\* mutant: retain() hands the node out without counting the new owner
RetainUncounted(m, n) ==
    IF m.fault # "none" THEN m
    ELSE IF ~IsNode(m, n) THEN Fail(m, "use_after_free")
    ELSE m

Retain(m, n) ==
    IF m.fault # "none" THEN m
    ELSE IF ~IsNode(m, n) THEN Fail(m, "use_after_free")
    ELSE [m EXCEPT !.heap[n].refcnt = @ + 1]

\* ------------------------------------------------------------ destruction
RECURSIVE NodeDestroy(_, _), ReleaseMayDefer(_, _), LinkDestroyLoop(_, _)
RECURSIVE Release(_, _)

\* void StringNode::destroy() const
StringDestroy(m, n) == Delete(m, n)

EnterLinkDestroy(m) ==
    [m EXCEPT !.depth = @ + 1,
              !.maxDepth = IF m.depth + 1 > @ THEN m.depth + 1 ELSE @]

LeaveLinkDestroy(m) == [m EXCEPT !.depth = @ - 1]

\* void LinkNode::destroy() const
LinkDestroy(m, n) ==
    LeaveLinkDestroy(LinkDestroyLoop(EnterLinkDestroy(m), <<n>>))

\* virtual void destroy() const
NodeDestroy(m, n) ==
    IF m.heap[n].kind = "link" THEN LinkDestroy(m, n) ELSE StringDestroy(m, n)

\* mutant: no typeid test, a LinkNode left without owner is destroyed at once
ReleaseMayDeferDoneNested(m, n, old) ==
    IF old = 0 THEN [m |-> NodeDestroy(m, n), defer |-> FALSE]
    ELSE [m |-> m, defer |-> FALSE]

\* refcnt_-- of n has been done in m, old being the count before it
ReleaseMayDeferDone(m, n, old) ==
    IF old = 0
    THEN IF m.heap[n].kind = "link"
         THEN [m |-> m, defer |-> TRUE]
         ELSE [m |-> NodeDestroy(m, n), defer |-> FALSE]
    ELSE [m |-> m, defer |-> FALSE]

\* static bool Node::_releaseMayDefer(const Node* node)
ReleaseMayDefer(m, n) ==
    IF m.fault # "none" THEN [m |-> m, defer |-> FALSE]
    ELSE IF ~IsNode(m, n) THEN [m |-> Fail(m, "use_after_free"), defer |-> FALSE]
    ELSE ReleaseMayDeferDone([m EXCEPT !.heap[n].refcnt = @ - 1], n,
                             m.heap[n].refcnt)

\* mutant: right_ is not pushed when left_ has taken the place of back()
DeferredLosesRight(deferred, node, leftDefers, rightDefers) ==
    IF leftDefers THEN [deferred EXCEPT ![Len(deferred)] = node.left]
    ELSE IF rightDefers THEN [deferred EXCEPT ![Len(deferred)] = node.right]
    ELSE SubSeq(deferred, 1, Len(deferred) - 1)

\* the vector deferred after one turn of the loop on its back(), node
Deferred(deferred, node, leftDefers, rightDefers) ==
    IF leftDefers
    THEN IF rightDefers
         THEN Append([deferred EXCEPT ![Len(deferred)] = node.left], node.right)
         ELSE [deferred EXCEPT ![Len(deferred)] = node.left]
    ELSE IF rightDefers
         THEN [deferred EXCEPT ![Len(deferred)] = node.right]
         ELSE SubSeq(deferred, 1, Len(deferred) - 1)

\* left_ has been released (rl), then right_ (rr): delete node, go round again
LinkDestroyRight(rr, deferred, n, node, leftDefers) ==
    LinkDestroyLoop(Delete(rr.m, n), Deferred(deferred, node, leftDefers, rr.defer))

\* mutant: right_ is released by release(), which destroys a Link at once
LinkDestroyLeftNests(rl, deferred, n, node) ==
    LinkDestroyRight([m |-> Release(rl.m, node.right), defer |-> FALSE],
                     deferred, n, node, rl.defer)

LinkDestroyLeft(rl, deferred, n, node) ==
    LinkDestroyRight(ReleaseMayDefer(rl.m, node.right), deferred, n, node, rl.defer)

\* the log of the vector deferred, taken where the loop tests or enters its
\* body: what it holds, and whether every entry is a live Link with no owner
\* (refcnt_ has gone below 0)
SeeDeferred(m, deferred) ==
    [m EXCEPT !.stacks = Append(@, deferred),
              !.stackOk = @ /\ \A i \in 1..Len(deferred) :
                                 /\ IsNode(m, deferred[i])
                                 /\ m.heap[deferred[i]].kind = "link"
                                 /\ m.heap[deferred[i]].refcnt = -1]

\* mutant: the Link at the back of deferred is not deleted
LinkDestroyTurnLeaks(m, deferred) ==
    IF ~IsNode(m, deferred[Len(deferred)]) THEN Fail(m, "use_after_free")
    ELSE LinkDestroyLoop(
             ReleaseMayDefer(ReleaseMayDefer(m, m.heap[deferred[Len(deferred)]].left).m,
                             m.heap[deferred[Len(deferred)]].right).m,
             SubSeq(deferred, 1, Len(deferred) - 1))

\* one turn of the loop: node = deferred.back(), and on from there
LinkDestroyTurn(m, deferred) ==
    IF ~IsNode(m, deferred[Len(deferred)]) THEN Fail(m, "use_after_free")
    ELSE LinkDestroyLeft(
             ReleaseMayDefer(m, m.heap[deferred[Len(deferred)]].left),
             deferred, deferred[Len(deferred)], m.heap[deferred[Len(deferred)]])

\* the do ... while (! deferred.empty()) of LinkNode::destroy
LinkDestroyLoop(m, deferred) ==
    IF m.fault # "none" THEN m
    ELSE IF deferred = <<>> THEN SeeDeferred(m, deferred)
    ELSE LinkDestroyTurn(SeeDeferred(m, deferred), deferred)

ReleaseDone(m, n, old) == IF old = 0 THEN NodeDestroy(m, n) ELSE m

\* void release() const
Release(m, n) ==
    IF m.fault # "none" THEN m
    ELSE IF ~IsNode(m, n) THEN Fail(m, "use_after_free")
    ELSE ReleaseDone([m EXCEPT !.heap[n].refcnt = @ - 1], n, m.heap[n].refcnt)

\* --------------------------------------------------------------- flatten
\* StringT::substr(pos, n): the units [pos, pos + n), cut at the end of str
StdSubstr(str, pos, n) ==
    SubSeq(str, pos + 1, IF pos + n < Len(str) THEN pos + n ELSE Len(str))

\* mutant: a Leaf is copied whether or not its window spans its buffer
StringFlattenCopies(m, n) ==
    IF m.heap[n].offset > Len(m.heap[n].s)
    THEN [m |-> Fail(m, "out_of_range"), node |-> n]
    ELSE NewStringNode([m EXCEPT !.copied = @ + m.heap[n].size],
                       StdSubstr(m.heap[n].s, m.heap[n].offset, m.heap[n].size),
                       0, m.heap[n].size)

\* const StringNode* StringNode::flatten() const: [m, node]
StringFlatten(m, n) ==
    IF m.heap[n].offset = 0 /\ Len(m.heap[n].s) = m.heap[n].size
    THEN [m |-> m, node |-> n]
    ELSE IF m.heap[n].offset > Len(m.heap[n].s)
    THEN [m |-> Fail(m, "out_of_range"), node |-> n]
    ELSE NewStringNode([m EXCEPT !.copied = @ + m.heap[n].size],
                       StdSubstr(m.heap[n].s, m.heap[n].offset, m.heap[n].size),
                       0, m.heap[n].size)

\* std::copy of the window of cell c to s, from index dst on
StdCopy(s, dst, c) ==
    [i \in 1..Len(s) |->
       IF dst < i /\ i <= dst + c.size THEN c.s[c.offset + (i - dst)] ELSE s[i]]

\* mutant: the cursor that is returned is out, not out + size()
StringFlattenIntoStays(f, n) ==
    IF f.m.heap[n].offset + f.m.heap[n].size > Len(f.m.heap[n].s)
       \/ f.dst + f.m.heap[n].size > Len(f.s)
    THEN [f EXCEPT !.m = Fail(@, "buffer_overrun")]
    ELSE [f EXCEPT !.s = StdCopy(f.s, f.dst, f.m.heap[n]),
                   !.m.copied = @ + f.m.heap[n].size,
                   !.m.copies = Append(@, [leaf |-> n, at |-> f.dst])]

\* char_type* StringNode::flatten(char_type* out, vector&); f is
\* [m, s, dst, pending]: s the buffer being filled, dst the index of out in it
StringFlattenInto(f, n) ==
    IF f.m.heap[n].offset + f.m.heap[n].size > Len(f.m.heap[n].s)
       \/ f.dst + f.m.heap[n].size > Len(f.s)
    THEN [f EXCEPT !.m = Fail(@, "buffer_overrun")]
    ELSE [f EXCEPT !.s = StdCopy(f.s, f.dst, f.m.heap[n]),
                   !.dst = @ + f.m.heap[n].size,
                   !.m.copied = @ + f.m.heap[n].size,
                   !.m.copies = Append(@, [leaf |-> n, at |-> f.dst])]

\* mutant: left_ is pushed before right_, so right_ is popped first
LinkFlattenIntoLeftFirst(f, n) ==
    [f EXCEPT !.pending = Append(Append(@, f.m.heap[n].left), f.m.heap[n].right)]

\* char_type* LinkNode::flatten(char_type* out, vector& delayed)
LinkFlattenInto(f, n) ==
    [f EXCEPT !.pending = Append(Append(@, f.m.heap[n].right), f.m.heap[n].left)]

\* virtual char_type* flatten(char_type* out, vector& delayed) const
NodeFlattenInto(f, n) ==
    IF ~IsNode(f.m, n) THEN [f EXCEPT !.m = Fail(@, "use_after_free")]
    ELSE IF f.m.heap[n].kind = "link" THEN LinkFlattenInto(f, n)
    ELSE StringFlattenInto(f, n)

\* the do ... while (! pending.empty()) of LinkNode::flatten
RECURSIVE LinkFlattenLoop(_)
LinkFlattenAgain(f) == IF f.pending = <<>> THEN f ELSE LinkFlattenLoop(f)

LinkFlattenLoop(f) ==
    IF f.m.fault # "none" THEN f
    ELSE IF f.pending = <<>> THEN [f EXCEPT !.m = Fail(@, "pop_empty")]
    ELSE LinkFlattenAgain(
             NodeFlattenInto([f EXCEPT !.pending = SubSeq(@, 1, Len(@) - 1)],
                             f.pending[Len(f.pending)]))

\* the loop has ended with the cursor at f.dst
LinkFlattenDone(f, size) ==
    NewStringNode([f.m EXCEPT !.cursor = f.dst], f.s, 0, size)

\* const StringNode* LinkNode::flatten() const: [m, node]
LinkFlatten(m, n) ==
    LinkFlattenDone(
        LinkFlattenLoop(
            LinkFlattenInto([m |-> m, s |-> [i \in 1..m.heap[n].size |-> NUL],
                             dst |-> 0, pending |-> <<>>], n)),
        m.heap[n].size)

\* virtual const StringNode* flatten() const
NodeFlatten(m, n) ==
    IF m.heap[n].kind = "link" THEN LinkFlatten(m, n) ELSE StringFlatten(m, n)

\* mutant: the root that was flattened is not released
FlattenDoneKeepsRoot(r, root) ==
    IF r.m.fault # "none" THEN [m |-> r.m, root |-> root, flat |-> root]
    ELSE IF r.node # root
    THEN [m |-> r.m, root |-> r.node, flat |-> r.node]
    ELSE [m |-> r.m, root |-> root, flat |-> r.node]

\* if (flat != s_) { s_->release(); s_ = flat; }
FlattenDone(r, root) ==
    IF r.m.fault # "none" THEN [m |-> r.m, root |-> root, flat |-> root]
    ELSE IF r.node # root
    THEN [m |-> Release(r.m, root), root |-> r.node, flat |-> r.node]
    ELSE [m |-> r.m, root |-> root, flat |-> r.node]

\* const StringNode* picostring::_flatten() const, on a handle whose s_ is
\* root (not NULL): [m, root, flat], root the value s_ is left with
Flatten_(m, root) == FlattenDone(NodeFlatten(m, root), root)

\* const StringT& StringNode::str() const
NodeStr(m, n) == m.heap[n].s

\* ------------------------------------------------------- picostring members
\* what dereferencing a null Node* does: the process is killed, or the access
\* goes unnoticed
NullDeref == {"segv", "unnoticed"}

Undefined(root) == IF root = NULL THEN NullDeref ELSE {"defined"}

\* size_type size() const
Size(m, root) == IF root # NULL THEN m.heap[root].size ELSE 0

\* bool empty() const
Empty(root) == root = NULL

\* picostring()
DefaultInit(m) == [m |-> m, node |-> NULL]

\* picostring(const picostring& s) : s_(s.s_->retain()): [m, node]
CopyInit(m, root, ub) ==
    IF root = NULL
    THEN IF ub = "segv" THEN [m |-> Fail(m, "segv"), node |-> NULL]
         ELSE [m |-> m, node |-> NULL]
    ELSE [m |-> Retain(m, root), node |-> root]

\* explicit picostring(const StringT& s): [m, node]
StringInit(m, str) ==
    IF str # <<>> THEN NewStringNode(m, str, 0, Len(str))
    ELSE [m |-> m, node |-> NULL]

\* picostring(const char_type* s, size_type length): [m, node]; the caller's
\* buffer str holds at least length units
PtrInit(m, str, length) ==
    IF length # 0 THEN NewStringNode(m, SubSeq(str, 1, length), 0, length)
    ELSE [m |-> m, node |-> NULL]

\* mutant: the root that is assigned is not retained
AssignRetainUncounted(m, y) ==
    IF y # NULL THEN [m |-> m, root |-> y] ELSE [m |-> m, root |-> NULL]

AssignRetain(m, y) ==
    IF y # NULL THEN [m |-> Retain(m, y), root |-> y] ELSE [m |-> m, root |-> NULL]

\* picostring& operator=(const picostring& s): [m, root]; same says that s is
\* *this, x and y are this->s_ and s.s_
AssignBody(m, same, x, y) ==
    IF ~same
    THEN AssignRetain(IF x # NULL THEN Release(m, x) ELSE m, y)
    ELSE [m |-> m, root |-> x]

\* ~picostring()
DestructBody(m, root) == IF root # NULL THEN Release(m, root) ELSE m

\* virtual const Node* nodeAt(size_type& pos) const of LinkNode; w is
\* [node, pos]
LinkNodeAt(m, w) ==
    IF w.pos < m.heap[m.heap[w.node].left].size
    THEN [node |-> m.heap[w.node].left, pos |-> w.pos]
    ELSE [node |-> m.heap[w.node].right,
          pos |-> w.pos - m.heap[m.heap[w.node].left].size]

\* while (const Node* n = node->nodeAt(pos)) node = n; a StringNode's nodeAt
\* returns NULL
RECURSIVE NodeAtWalk(_, _)
NodeAtWalk(m, w) ==
    IF m.heap[w.node].kind = "link" THEN NodeAtWalk(m, LinkNodeAt(m, w)) ELSE w

AtIndex(m, w) == NodeStr(m, w.node)[w.pos + 1]

\* char_type at(size_type pos) const: [fault, ret]
AtBody(m, root, pos) ==
    IF root = NULL \/ ~(pos < Size(m, root)) THEN [fault |-> "assert", ret |-> NUL]
    ELSE [fault |-> "none",
          ret |-> AtIndex(m, NodeAtWalk(m, [node |-> root, pos |-> pos]))]

SubstrNode(r, root) == [m |-> r.m, root |-> root, node |-> r.node]

\* mutant: the window starts at the head of the flattened buffer
SubstrWindowAtZero(f, pos, length) ==
    IF f.m.fault # "none" THEN [m |-> f.m, root |-> f.root, node |-> NULL]
    ELSE SubstrNode(NewStringNode(f.m, NodeStr(f.m, f.flat), 0, length), f.root)

\* new StringNode(_flatten()->str(), pos, length), _flatten() being done (f)
SubstrWindow(f, pos, length) ==
    IF f.m.fault # "none" THEN [m |-> f.m, root |-> f.root, node |-> NULL]
    ELSE SubstrNode(NewStringNode(f.m, NodeStr(f.m, f.flat), pos, length), f.root)

\* picostring substr(size_type pos, size_type length) const: [m, root, node],
\* root what this->s_ is left with, node the s_ of the result
SubstrBody(m, root, pos, length, ub) ==
    IF root = NULL /\ ub = "segv"
    THEN [m |-> Fail(m, "segv"), root |-> root, node |-> NULL]
    ELSE IF root # NULL /\ ~(Wrap(pos + length) <= m.heap[root].size)
    THEN [m |-> Fail(m, "assert"), root |-> root, node |-> NULL]
    ELSE IF length = 0 THEN [m |-> m, root |-> root, node |-> NULL]
    ELSE IF root = NULL THEN [m |-> Fail(m, "assert"), root |-> root, node |-> NULL]
    ELSE SubstrWindow(Flatten_(m, root), pos, length)

\* mutant: the argument is linked in without being retained
NodeAppendUnretained(m, n, other) ==
    NewLinkNode(Retain(m, n), n, other)

\* virtual const Node* append(const Node* s) const, of StringNode and LinkNode
NodeAppend(m, n, other) ==
    NewLinkNode(Retain(Retain(m, n), other), n, other)

NodeAppendLink(leaf, n) == NewLinkNode(Retain(leaf.m, n), n, leaf.node)

\* virtual const Node* append(const StringT& s) const, of both
NodeAppendStr(m, n, str) ==
    NodeAppendLink(NewStringNode(m, str, 0, Len(str)), n)

\* picostring append(const picostring& s) const: [m, node]; a and b are
\* this->s_ and s.s_
AppendBody(m, a, b, ub) ==
    IF a = NULL THEN CopyInit(m, b, ub)
    ELSE IF b = NULL THEN CopyInit(m, a, ub)
    ELSE NodeAppend(m, a, b)

\* picostring append(const StringT& s) const: [m, node]
AppendStrBody(m, a, str, ub) ==
    IF str = <<>> THEN CopyInit(m, a, ub)
    ELSE IF a = NULL THEN StringInit(m, str)
    ELSE NodeAppendStr(m, a, str)

\* picostring append(const char_type* s, size_type length) const: [m, node].
\* Its last return statement names picostirng, which nothing declares, and
\* calls s->append on a const char_type*: the member cannot be instantiated,
\* so a program that calls it, with whatever arguments, is not built
AppendPtrBody(m, a, str, length) == [m |-> Fail(m, "ill_formed"), node |-> NULL]

\* const StringT& str() const: [m, root, flat]; flat is the node whose s_ the
\* returned reference points into, NULL for the static emptyStr
StrBody(m, root) ==
    IF root = NULL \/ m.fault # "none" THEN [m |-> m, root |-> root, flat |-> NULL]
    ELSE Flatten_(m, root)

\* reading through a reference that str() returned
Deref(m, ref) == IF ref = NULL \/ ~IsNode(m, ref) THEN <<>> ELSE NodeStr(m, ref)

Dangling(m, ref) == ref # NULL /\ ~IsNode(m, ref)

\* StringT's comparison: -1, 0 or 1 as a is less than, equal to or greater than
\* b in lexicographic order, a proper prefix being less
RECURSIVE StdCompare(_, _)
StdCompare(a, b) ==
    IF a = <<>> THEN (IF b = <<>> THEN 0 ELSE -1)
    ELSE IF b = <<>> THEN 1
    ELSE IF Head(a) < Head(b) THEN -1
    ELSE IF Head(a) > Head(b) THEN 1
    ELSE StdCompare(Tail(a), Tail(b))

\* str() of this (handle x, r1) and of the argument (handle y, r2) are done:
\* [m, ss, cmp], ss being s_ as the two calls leave it
StrBothDone(r1, r2, ss, x, y) ==
    [m |-> IF Dangling(r2.m, r1.flat) \/ Dangling(r2.m, r2.flat)
           THEN Fail(r2.m, "use_after_free") ELSE r2.m,
     ss |-> [[ss EXCEPT ![x] = r1.root] EXCEPT ![y] = r2.root],
     cmp |-> StdCompare(Deref(r2.m, r1.flat), Deref(r2.m, r2.flat))]

StrSecond(r1, ss, x, y) ==
    StrBothDone(r1, StrBody(r1.m, IF y = x THEN r1.root ELSE ss[y]), ss, x, y)

\* str() and x.str(), the operands of the StringT comparison
StrBoth(m, ss, x, y) == StrSecond(StrBody(m, ss[x]), ss, x, y)

OpEqDone(o) == [m |-> o.m, ss |-> o.ss, ret |-> o.cmp = 0]

\* bool operator==(const picostring& x) const: [m, ss, ret]; this is handle
\* x, the argument handle y
OpEq(m, ss, x, y) ==
    IF Size(m, ss[x]) # Size(m, ss[y]) THEN [m |-> m, ss |-> ss, ret |-> FALSE]
    ELSE OpEqDone(StrBoth(m, ss, x, y))

Not(r) == [r EXCEPT !.ret = ~ @]

\* bool operator!=(const picostring& x) const
OpNe(m, ss, x, y) == Not(OpEq(m, ss, x, y))

OpLtDone(o) == [m |-> o.m, ss |-> o.ss, ret |-> o.cmp < 0]

\* bool operator<(const picostring& x) const
OpLt(m, ss, x, y) == OpLtDone(StrBoth(m, ss, x, y))

\* mutant: <= answers as < does
OpLeDoneStrict(o) == [m |-> o.m, ss |-> o.ss, ret |-> o.cmp < 0]

OpLeDone(o) == [m |-> o.m, ss |-> o.ss, ret |-> o.cmp <= 0]

\* bool operator<=(const picostring& x) const
OpLe(m, ss, x, y) == OpLeDone(StrBoth(m, ss, x, y))

OpGtDone(o) == [m |-> o.m, ss |-> o.ss, ret |-> o.cmp > 0]

\* bool operator>(const picostring& x) const
OpGt(m, ss, x, y) == OpGtDone(StrBoth(m, ss, x, y))

OpGeDone(o) == [m |-> o.m, ss |-> o.ss, ret |-> o.cmp >= 0]

\* bool operator>=(const picostring& x) const
OpGe(m, ss, x, y) == OpGeDone(StrBoth(m, ss, x, y))

CompareOps == {"==", "!=", "<", "<=", ">", ">="}

Operator(op, m, ss, x, y) ==
    CASE op = "==" -> OpEq(m, ss, x, y)
      [] op = "!=" -> OpNe(m, ss, x, y)
      [] op = "<" -> OpLt(m, ss, x, y)
      [] op = "<=" -> OpLe(m, ss, x, y)
      [] op = ">" -> OpGt(m, ss, x, y)
      [] op = ">=" -> OpGe(m, ss, x, y)

\* ------------------------------------------------------------ the program
Running == fault = "none"

\* the program names its objects 1, 2, ... in the order it constructs them
Unused(h) == h = born + 1

\* the call returns, leaving the heap of m, the scope al and the handles ss;
\* or it kills the process, and nothing of the program's memory is left.
\* Allocation does not fail: a call that the heap has no room for is not made.
Commit(m, al, ss) ==
    /\ m.fault # "bad_alloc"
    /\ heap' = IF m.fault = "none" THEN m.heap ELSE EmptyHeap
    /\ alive' = IF m.fault = "none" THEN al ELSE {}
    /\ born' = IF m.fault = "none" /\ al \ alive # {} THEN born + 1 ELSE born
    /\ s_' = IF m.fault = "none" THEN ss ELSE [h \in AllHandles |-> NULL]
    /\ fault' = m.fault

\* r is [m, node]: the object h is constructed with s_ = r.node
Bind(h, r) == Commit(r.m, alive \cup {h}, [s_ EXCEPT ![h] = r.node])

\* r is [m, root]: h is left with s_ = r.root
Rebind(h, r) == Commit(r.m, alive, [s_ EXCEPT ![h] = r.root])

\* r is [m, root, node]: d is constructed with r.node, h left with r.root
BindBoth(d, h, r) ==
    Commit(r.m, alive \cup {d}, [s_ EXCEPT ![h] = r.root, ![d] = r.node])

Default(h) ==
    /\ Running /\ Unused(h)
    /\ Bind(h, DefaultInit(Machine(heap)))

Construct(h, str) ==
    /\ Running /\ Unused(h)
    /\ Bind(h, StringInit(Machine(heap), str))

ConstructPtr(h, str, length) ==
    /\ Running /\ Unused(h) /\ length <= Len(str)
    /\ Bind(h, PtrInit(Machine(heap), str, length))

Copy(h, g) ==
    /\ Running /\ Unused(h) /\ g \in alive
    /\ \E ub \in Undefined(s_[g]) : Bind(h, CopyInit(Machine(heap), s_[g], ub))

Assign(x, y) ==
    /\ Running /\ x \in alive /\ y \in alive
    /\ Rebind(x, AssignBody(Machine(heap), x = y, s_[x], s_[y]))

Destruct(h) ==
    /\ Running /\ h \in alive
    /\ Commit(DestructBody(Machine(heap), s_[h]), alive \ {h},
              [s_ EXCEPT ![h] = NULL])

At(h, pos) ==
    /\ Running /\ h \in alive
    /\ Commit(Fail(Machine(heap), AtBody(Machine(heap), s_[h], pos).fault),
              alive, s_)

Substr(d, h, pos, length) ==
    /\ Running /\ Unused(d) /\ h \in alive
    /\ \E ub \in Undefined(s_[h]) :
         BindBoth(d, h, SubstrBody(Machine(heap), s_[h], pos, length, ub))

Append_(d, a, b) ==
    /\ Running /\ Unused(d) /\ a \in alive /\ b \in alive
    /\ \E ub \in Undefined(IF s_[a] = NULL THEN s_[b] ELSE s_[a]) :
         Bind(d, AppendBody(Machine(heap), s_[a], s_[b], ub))

AppendStr(d, a, str) ==
    /\ Running /\ Unused(d) /\ a \in alive
    /\ \E ub \in Undefined(IF str = <<>> THEN s_[a] ELSE 1) :
         Bind(d, AppendStrBody(Machine(heap), s_[a], str, ub))

Str(h) ==
    /\ Running /\ h \in alive
    /\ Rebind(h, StrBody(Machine(heap), s_[h]))

CompareDone(r) == Commit(r.m, alive, r.ss)

Compare(op, x, y) ==
    /\ Running /\ x \in alive /\ y \in alive
    /\ CompareDone(Operator(op, Machine(heap), s_, x, y))

\* Spec builds no rope longer than MaxLen
Short(size) == size <= MaxLen

Init ==
    /\ heap = EmptyHeap
    /\ alive = {}
    /\ born = 0
    /\ s_ = [h \in AllHandles |-> NULL]
    /\ fault = "none"

Next ==
    \/ \E h \in Handles : Default(h)
    \/ \E h \in Handles, str \in StrArgs : Construct(h, str)
    \/ \E h \in Handles, str \in StrArgs, length \in 0..MaxPos :
         ConstructPtr(h, str, length)
    \/ \E h, g \in Handles : Copy(h, g)
    \/ \E x, y \in Handles : Assign(x, y)
    \/ \E h \in Handles : Destruct(h)
    \/ \E h \in Handles, pos \in 0..MaxPos : At(h, pos)
    \/ \E d, h \in Handles, pos, length \in 0..MaxPos : Substr(d, h, pos, length)
    \/ \E d, a, b \in Handles :
         Short(Size(Machine(heap), s_[a]) + Size(Machine(heap), s_[b]))
         /\ Append_(d, a, b)
    \/ \E d, a \in Handles, str \in StrArgs :
         Short(Size(Machine(heap), s_[a]) + Len(str)) /\ AppendStr(d, a, str)
    \/ \E h \in Handles : Str(h)
    \/ \E op \in CompareOps, x, y \in Handles : Compare(op, x, y)

Spec == Init /\ [][Next]_vars

\* The owners of a node graph only: one-unit leaves, shared by copying,
\* joined by append, released by assignment and destruction.
DestroyNext ==
    \/ \E h \in Owners : Construct(h, <<1>>)
    \/ \E h, g \in Owners : Copy(h, g)
    \/ \E d, a, b \in Owners : Append_(d, a, b)
    \/ \E x, y \in Owners : Assign(x, y)
    \/ \E h \in Owners : Destruct(h)

DestroySpec == Init /\ [][DestroyNext]_vars

\* ------------------------------------------------- what the claims speak of
\* A claim about a call is stated of every such call the state allows: the
\* call's body is applied to the state's heap, and again to the heap it
\* leaves.  The heap has room for a call whose machine does not end in
\* bad_alloc.
Fits(m) == m.fault # "bad_alloc"

StrRet(r) == Deref(r.m, r.flat)

\* what str() returns on a handle whose s_ is root, in heap hp
StrOf(hp, root) == StrRet(StrBody(Machine(hp), root))

StrFits(hp, root) == Fits(StrBody(Machine(hp), root).m)

\* the nodes of the tree under n
RECURSIVE Tree(_, _)
Tree(hp, n) ==
    IF n \notin Nodes THEN {}
    ELSE IF hp[n].kind = "link"
    THEN {n} \cup Tree(hp, hp[n].left) \cup Tree(hp, hp[n].right)
    ELSE {n}

\* a leaf that is a window with a non-zero offset
IsWindow(hp, n) == hp[n].kind = "leaf" /\ hp[n].offset > 0

HasWindow(hp, root) == \E n \in Tree(hp, root) : IsWindow(hp, n)

\* ---------------------------------------------------------------- claims
AppendOk(r, a, b) ==
    (Fits(r.m) /\ StrFits(r.m.heap, r.node) /\ StrFits(heap, a) /\ StrFits(heap, b))
    => /\ r.m.fault = "none"
       /\ Size(r.m, r.node) = Size(Machine(heap), a) + Size(Machine(heap), b)
       /\ StrOf(r.m.heap, r.node) = StrOf(heap, a) \o StrOf(heap, b)

AppendStrOk(r, a, str) ==
    (Fits(r.m) /\ StrFits(r.m.heap, r.node) /\ StrFits(heap, a))
    => /\ r.m.fault = "none"
       /\ Size(r.m, r.node) = Size(Machine(heap), a) + Len(str)
       /\ StrOf(r.m.heap, r.node) = StrOf(heap, a) \o str

\* C1: for all non-empty handles a and b in scope, however they were built,
\* a.append(b) has size a.size() + b.size() and a.append(b).str() is a.str()
\* followed by b.str(); likewise a.append(s) for a non-empty string s.
C1_AppendConcatenates ==
    Running =>
      /\ \A a, b \in alive :
           (s_[a] # NULL /\ s_[b] # NULL)
           => AppendOk(AppendBody(Machine(heap), s_[a], s_[b], "segv"), s_[a], s_[b])
      /\ \A a \in alive, str \in StrArgs :
           (s_[a] # NULL /\ str # <<>>)
           => AppendStrOk(AppendStrBody(Machine(heap), s_[a], str, "segv"), s_[a], str)

\* d = a.append(b) has been made of two different ropes, one of them holding
\* a window with a non-zero offset, and d.str() is a.str() then b.str()
C1_Witness ==
    \E d, a, b \in alive :
      /\ s_[d] # NULL /\ heap[s_[d]].kind = "link"
      /\ heap[s_[d]].left = s_[a] /\ heap[s_[d]].right = s_[b]
      /\ HasWindow(heap, s_[d])
      /\ StrFits(heap, s_[d]) /\ StrFits(heap, s_[a]) /\ StrFits(heap, s_[b])
      /\ StrOf(heap, s_[a]) # StrOf(heap, s_[b])
      /\ StrOf(heap, s_[d]) = StrOf(heap, s_[a]) \o StrOf(heap, s_[b])

SubstrOk(r, root, pos, length) ==
    (Fits(r.m) /\ StrFits(r.m.heap, r.node) /\ StrFits(heap, root))
    => /\ r.m.fault = "none"
       /\ StrOf(r.m.heap, r.node) = SubSeq(StrOf(heap, root), pos + 1, pos + length)

\* C2: for every non-empty handle h in scope and all pos, len with
\* pos + len <= h.size(), h.substr(pos, len).str() is the slice
\* [pos, pos + len) of h.str().
C2_SubstrIsSlice ==
    Running =>
      \A h \in alive, pos \in 0..MaxPos, length \in 0..MaxPos :
        (s_[h] # NULL /\ pos + length <= Size(Machine(heap), s_[h]))
        => SubstrOk(SubstrBody(Machine(heap), s_[h], pos, length, "segv"),
                    s_[h], pos, length)

SubstrSeen(r, root) ==
    /\ r.m.fault = "none" /\ StrFits(r.m.heap, r.node) /\ StrFits(heap, root)
    /\ StrOf(r.m.heap, r.node) = SubSeq(StrOf(heap, root), 2, 2)
    /\ StrOf(heap, root)[1] # StrOf(heap, root)[2]

\* h is a Link tree over a window with a non-zero offset, and h.substr(1, 1)
\* is the second unit of h.str(), which differs from the first
C2_Witness ==
    \E h \in alive :
      /\ s_[h] # NULL /\ heap[s_[h]].kind = "link" /\ HasWindow(heap, s_[h])
      /\ SubstrSeen(SubstrBody(Machine(heap), s_[h], 1, 1, "segv"), s_[h])

AtOk(r, root, pos) ==
    /\ r.fault = "none"
    /\ r.ret = StrOf(heap, root)[pos + 1]

\* C3: for every handle h in scope, whatever its leaves' offsets, and every
\* pos < h.size(), h.at(pos) is the unit at index pos of h.str().
C3_AtIsUnitOfStr ==
    Running =>
      \A h \in alive, pos \in 0..MaxPos :
        (s_[h] # NULL /\ pos < Size(Machine(heap), s_[h]) /\ StrFits(heap, s_[h]))
        => AtOk(AtBody(Machine(heap), s_[h], pos), s_[h], pos)

\* fully recursive destruction, the reference of C4: a node released by its
\* last owner releases its children, left then right, and is then freed
RECURSIVE RecRelease(_, _)
RecReleased(m, n, old) ==
    IF old # 0 THEN m
    ELSE IF m.heap[n].kind = "link"
    THEN Delete(RecRelease(RecRelease(m, m.heap[n].left), m.heap[n].right), n)
    ELSE Delete(m, n)

RecRelease(m, n) ==
    IF m.fault # "none" THEN m
    ELSE IF ~IsNode(m, n) THEN Fail(m, "use_after_free")
    ELSE RecReleased([m EXCEPT !.heap[n].refcnt = @ - 1], n, m.heap[n].refcnt)

\* the owners node n has in heap hp when the handles hs are in scope: the
\* handles that hold it and the child slots of live Links that point to it
OwnerCount(hp, hs, n) ==
    Cardinality({h \in hs : s_[h] = n})
    + Cardinality({l \in Nodes : hp[l].kind = "link" /\ hp[l].left = n})
    + Cardinality({l \in Nodes : hp[l].kind = "link" /\ hp[l].right = n})

NoDuplicates(seq) == Cardinality(Range(seq)) = Len(seq)

\* m is what releasing the root of h leaves, rec what recursion leaves
DestroyedAsRecursion(m, rec, h) ==
    /\ m.fault = "none" /\ rec.fault = "none"
    /\ Range(m.freed) = Range(rec.freed)
    /\ NoDuplicates(m.freed)
    /\ m.heap = rec.heap
    /\ \A n \in Nodes :
         IF n \in Range(m.freed)
         THEN heap[n].kind # "free" /\ OwnerCount(m.heap, alive \ {h}, n) = 0
         ELSE m.heap[n].kind # "free" => OwnerCount(m.heap, alive \ {h}, n) >= 1

\* C4: when a handle releases its root, LinkNode::destroy frees exactly the
\* nodes that fully recursive destruction frees, each once: the nodes left
\* without owner, and no node that a handle or a live Link still owns.
C4_DestroyIsRecursiveDestruction ==
    Running =>
      \A h \in alive :
        s_[h] # NULL
        => DestroyedAsRecursion(DestructBody(Machine(heap), s_[h]),
                                RecRelease(Machine(heap), s_[h]), h)

Links(hp, ns) == {n \in ns : hp[n].kind = "link"}

DestroyedMuch(m, h) ==
    /\ Cardinality(Links(heap, Range(m.freed))) >= 3
    /\ Tree(heap, s_[h]) \ Range(m.freed) # {}

\* the last owner of a Link releases it: both children of the Link are Links
\* of their own that nobody else owns, one of them has the same node as left
\* and right, three Links are freed and a shared node of the tree survives
C4_Witness ==
    \E h \in alive :
      /\ s_[h] # NULL /\ heap[s_[h]].kind = "link" /\ heap[s_[h]].refcnt = 0
      /\ heap[s_[h]].left # heap[s_[h]].right
      /\ heap[heap[s_[h]].left].kind = "link" /\ heap[heap[s_[h]].left].refcnt = 0
      /\ heap[heap[s_[h]].right].kind = "link" /\ heap[heap[s_[h]].right].refcnt = 0
      /\ heap[heap[s_[h]].left].left = heap[heap[s_[h]].left].right
      /\ DestroyedMuch(DestructBody(Machine(heap), s_[h]), h)

\* C5: whatever the depth of the tree, LinkNode::destroy is never entered
\* while another LinkNode::destroy is running: a Link left without owner goes
\* to the explicit stack, and only Leaves are destroyed by a nested call.
C5_DestroyIsNotReentered ==
    Running =>
      \A h \in alive :
        /\ DestructBody(Machine(heap), s_[h]).maxDepth <= 1
        /\ \A y \in alive :
             AssignBody(Machine(heap), h = y, s_[h], s_[y]).m.maxDepth <= 1

ChainDestroyed(m) ==
    /\ m.fault = "none" /\ m.maxDepth = 1
    /\ Cardinality(Links(heap, Range(m.freed))) = 3

\* a left-skewed chain of three Links, each made by appending one unit, is
\* released by its last owner, and all three Links are freed in one call
C5_Witness ==
    \E h \in alive :
      /\ s_[h] # NULL /\ heap[s_[h]].kind = "link" /\ heap[s_[h]].refcnt = 0
      /\ heap[heap[s_[h]].right].kind = "leaf"
      /\ heap[heap[s_[h]].left].kind = "link" /\ heap[heap[s_[h]].left].refcnt = 0
      /\ heap[heap[heap[s_[h]].left].right].kind = "leaf"
      /\ heap[heap[heap[s_[h]].left].left].kind = "link"
      /\ heap[heap[heap[s_[h]].left].left].refcnt = 0
      /\ ChainDestroyed(DestructBody(Machine(heap), s_[h]))

Released(m, n) ==
    /\ m.fault = "none"
    /\ IF OwnerCount(heap, alive, n) = 1
       THEN m.heap[n].kind = "free" /\ n \in Range(m.freed)
       ELSE m.freed = <<>> /\ m.heap = [heap EXCEPT ![n].refcnt = @ - 1]

\* C6: between the operations of the handles, the refcnt_ of every live node
\* is the number of its owners (the handles whose root it is and the child
\* slots of live Links that point to it) less one; and a release destroys the
\* node when it had one owner, and otherwise only decrements its count.
C6_RefcntIsOwnersLessOne ==
    Running =>
      /\ \A n \in Nodes :
           heap[n].kind # "free" => heap[n].refcnt = OwnerCount(heap, alive, n) - 1
      /\ \A h \in alive :
           s_[h] # NULL => Released(Release(Machine(heap), s_[h]), s_[h])

\* a node has two handles and a child slot of a Link as owners, and another
\* handle is the one owner of a Link, which its release destroys
C6_Witness ==
    /\ \E n \in Nodes :
         /\ heap[n].kind # "free" /\ heap[n].refcnt = 2
         /\ Cardinality({h \in alive : s_[h] = n}) = 2
    /\ \E h \in alive :
         /\ s_[h] # NULL /\ heap[s_[h]].kind = "link" /\ heap[s_[h]].refcnt = 0
         /\ Release(Machine(heap), s_[h]).heap[s_[h]].kind = "free"

\* a Leaf whose window spans its whole buffer
FlatLeaf(hp, n) ==
    hp[n].kind = "leaf" /\ hp[n].offset = 0 /\ Len(hp[n].s) = hp[n].size

\* r1 is what a first str() gave and r2 what a second one gave after it
StrTwiceOk(r1, r2) ==
    Fits(r1.m)
    => /\ r1.m.fault = "none" /\ r2.m.fault = "none"
       /\ StrRet(r2) = StrRet(r1)
       /\ r1.root # NULL => FlatLeaf(r1.m.heap, r1.root)
       /\ r2.m.allocs = <<>> /\ r2.m.copied = 0
       /\ r2.root = r1.root /\ r2.m.heap = r1.m.heap

StrTwice(r1) == StrTwiceOk(r1, StrBody(Machine(r1.m.heap), r1.root))

\* C7: for every handle h, two consecutive calls of h.str() return the same
\* content; after the first the root of h is a flat Leaf, and the second
\* allocates no node, copies nothing and leaves the root of h as it is.
C7_StrIsIdempotent ==
    Running => \A h \in alive : StrTwice(StrBody(Machine(heap), s_[h]))

StrTwiceSeen(r1, r2) ==
    /\ r1.m.fault = "none" /\ r1.m.allocs # <<>> /\ r1.m.copied >= 2
    /\ r2.m.fault = "none" /\ r2.m.allocs = <<>> /\ StrRet(r2) = StrRet(r1)

StrOnceSeen(r1) == StrTwiceSeen(r1, StrBody(Machine(r1.m.heap), r1.root))

\* the root of h is a Link over a window: the first str() allocates and
\* copies, the second does neither
C7_Witness ==
    \E h \in alive :
      /\ s_[h] # NULL /\ heap[s_[h]].kind = "link" /\ HasWindow(heap, s_[h])
      /\ StrOnceSeen(StrBody(Machine(heap), s_[h]))

\* the units a node stands for: its window, or its children's units in order
RECURSIVE Content(_, _)
Content(hp, n) ==
    IF n \notin Nodes THEN <<>>
    ELSE IF hp[n].kind = "link"
    THEN Content(hp, hp[n].left) \o Content(hp, hp[n].right)
    ELSE SubSeq(hp[n].s, hp[n].offset + 1, hp[n].offset + hp[n].size)

\* handles a and b hold the same root, which is not a flat Leaf
Share(a, b) ==
    a # b /\ s_[a] # NULL /\ s_[a] = s_[b] /\ ~FlatLeaf(heap, s_[a])

\* in heap hp the handle that held R holds root instead, a new flat Leaf, and
\* R has lost that one owner and nothing else
OnlyRebound(hp, root, R) ==
    /\ hp[R].kind # "free" /\ hp[R].refcnt = heap[R].refcnt - 1
    /\ Content(hp, R) = Content(heap, R)
    /\ root # R /\ root # NULL /\ heap[root].kind = "free" /\ FlatLeaf(hp, root)

FlattenedOwn(r, R) ==
    Fits(r.m) => r.m.fault = "none" /\ OnlyRebound(r.m.heap, r.root, R)

ComparedOwn(r, a, R) ==
    Fits(r.m)
    => /\ r.m.fault = "none" /\ OnlyRebound(r.m.heap, r.ss[a], R)
       /\ \A g \in alive \ {a} : r.ss[g] = s_[g]

StrSubstrOwn(a) ==
    /\ FlattenedOwn(StrBody(Machine(heap), s_[a]), s_[a])
    /\ \A pos \in 0..MaxPos, length \in 1..MaxPos :
         pos + length <= Size(Machine(heap), s_[a])
         => FlattenedOwn(SubstrBody(Machine(heap), s_[a], pos, length, "segv"), s_[a])

FlattensLeftOnly(op, a, x) ==
    /\ s_[x] = NULL \/ FlatLeaf(heap, s_[x])
    /\ op \in {"==", "!="} => Size(Machine(heap), s_[x]) = Size(Machine(heap), s_[a])

ComparedSeen(r, a) == r.m.fault = "none" /\ r.ss[a] # s_[a] /\ r.ret = FALSE

AppendedNothing(r, other) ==
    r.m.fault = "none" /\ r.m.allocs = <<>> /\ r.node = other

AppendedString(r, str) ==
    r.m.fault = "none" /\ Content(r.m.heap, r.node) = str

\* C9: for handles a and b of which one at least is empty, both being empty
\* included, a.append(b) completes without fault, allocates no node and
\* returns the root of the other operand, no root when that one is empty
\* too; and a.append(s) with an empty string s does the same with the root of
\* a, and with an empty a and a string s that is not empty returns s.
C9_AppendOfEmptyReturnsOther ==
    Running =>
      \A ub \in NullDeref :
        /\ \A a, b \in alive :
             (s_[a] = NULL \/ s_[b] = NULL)
             => AppendedNothing(AppendBody(Machine(heap), s_[a], s_[b], ub),
                                IF s_[a] = NULL THEN s_[b] ELSE s_[a])
        /\ \A a \in alive, str \in StrArgs :
             IF str = <<>>
             THEN AppendedNothing(AppendStrBody(Machine(heap), s_[a], <<>>, ub), s_[a])
             ELSE (s_[a] = NULL /\ Fits(AppendStrBody(Machine(heap), NULL, str, ub).m))
                  => AppendedString(AppendStrBody(Machine(heap), NULL, str, ub), str)

\* a is less than b in lexicographic order: they agree on k units, and then a
\* ends and b does not, or the next unit of a is the smaller
LexLess(a, b) ==
    \E k \in 0..Min({Len(a), Len(b)}) :
      /\ SubSeq(a, 1, k) = SubSeq(b, 1, k)
      /\ k < Len(b)
      /\ k < Len(a) => a[k + 1] < b[k + 1]

Expected(op, a, b) ==
    CASE op = "==" -> a = b
      [] op = "!=" -> a # b
      [] op = "<" -> LexLess(a, b)
      [] op = "<=" -> LexLess(a, b) \/ a = b
      [] op = ">" -> LexLess(b, a)
      [] op = ">=" -> LexLess(b, a) \/ a = b

Compared(r, op, a, b) ==
    Fits(r.m) => r.m.fault = "none" /\ r.ret = Expected(op, a, b)

\* C10: for all handles x and y, however they were built, x == y holds when
\* and only when their contents are equal, x != y is its negation, and <, <=,
\* > and >= answer as the lexicographic comparison of the two contents does,
\* the shorter of two that agree being the lesser; an empty handle compares
\* as the empty string.
C10_ComparisonsCompareContents ==
    Running =>
      \A op \in CompareOps, x, y \in alive :
        Compared(Operator(op, Machine(heap), s_, x, y), op,
                 Content(heap, s_[x]), Content(heap, s_[y]))

Answered(r, ret) == r.m.fault = "none" /\ r.ret = ret

\* x is a Link and y a Leaf of the same content, and z holds a proper prefix
\* of it: x == y and z < x are answered true, x <= z false
C10_Witness ==
    \E x, y, z \in alive :
      /\ s_[x] # NULL /\ s_[y] # NULL /\ s_[z] # NULL
      /\ heap[s_[x]].kind = "link" /\ heap[s_[y]].kind = "leaf"
      /\ Content(heap, s_[x]) = Content(heap, s_[y])
      /\ Content(heap, s_[z]) = SubSeq(Content(heap, s_[x]), 1, 1)
      /\ Answered(Operator("==", Machine(heap), s_, x, y), TRUE)
      /\ Answered(Operator("<", Machine(heap), s_, z, x), TRUE)
      /\ Answered(Operator("<=", Machine(heap), s_, x, z), FALSE)

Copied(r, root) ==
    /\ r.m.fault = "none" /\ r.node = root
    /\ r.m.allocs = <<>> /\ r.m.freed = <<>>
    /\ r.m.heap = IF root = NULL THEN heap ELSE [heap EXCEPT ![root].refcnt = @ + 1]

\* C11: copy-constructing a handle from any handle h in scope, empty or not,
\* completes without fault and gives a handle with the root of h, no root
\* when h is empty; it allocates no node, raises the owner count of that
\* root by one, and changes nothing else, h included.
C11_CopySharesRoot ==
    Running =>
      \A h \in alive, ub \in NullDeref :
        Copied(CopyInit(Machine(heap), s_[h], ub), s_[h])

SubstrNothing(r, root) ==
    /\ r.m.fault = "none" /\ r.node = NULL /\ r.root = root
    /\ r.m.allocs = <<>> /\ r.m.heap = heap

\* C12: for every handle h in scope, the empty handle included, and every
\* pos <= h.size(), h.substr(pos, 0) completes without fault, returns the
\* empty handle, and neither flattens nor rebinds the root of h.
C12_SubstrOfNothingIsEmpty ==
    Running =>
      \A h \in alive, pos \in 0..MaxPos, ub \in NullDeref :
        pos <= Size(Machine(heap), s_[h])
        => SubstrNothing(SubstrBody(Machine(heap), s_[h], pos, 0, ub), s_[h])

\* C13: in every state the operations of the handles reach, the root of a
\* handle, when it has one, is a live node with size() > 0, and empty() is
\* true exactly when size() is 0, exactly when the handle has no root.
C13_RootIsNeverOfSizeZero ==
    Running =>
      \A h \in alive :
        /\ s_[h] # NULL => heap[s_[h]].kind # "free" /\ heap[s_[h]].size > 0
        /\ Empty(s_[h]) <=> Size(Machine(heap), s_[h]) = 0

\* the place of node n in the order of freeing
FreedAt(m, n) == CHOOSE i \in 1..Len(m.freed) : m.freed[i] = n

\* Link p is the only owner of its child c: every owner of c is a slot of p
SoleOwner(p, c) ==
    /\ c \in {heap[p].left, heap[p].right}
    /\ heap[c].refcnt + 1 = (IF heap[p].left = c THEN 1 ELSE 0)
                            + (IF heap[p].right = c THEN 1 ELSE 0)

\* the Links that m freed, each with a child it was the only owner of
FreedWithChild(m) ==
    {pc \in Links(heap, Range(m.freed)) \X Nodes : SoleOwner(pc[1], pc[2])}

ChildrenFreedFirst(m) ==
    /\ m.fault = "none"
    /\ \A pc \in FreedWithChild(m) :
         /\ pc[2] \in Range(m.freed)
         /\ FreedAt(m, pc[2]) < FreedAt(m, pc[1])

\* C14 as stated: when a handle releases its root, a Link is freed only
\* after every child it was the only owner of has been freed.
C14_FreedFromLeavesUpward ==
    Running =>
      \A h \in alive : ChildrenFreedFirst(DestructBody(Machine(heap), s_[h]))

LeavesFirstLinksLater(m) ==
    /\ m.fault = "none"
    /\ \A pc \in FreedWithChild(m) :
         /\ pc[2] \in Range(m.freed)
         /\ IF heap[pc[2]].kind = "leaf"
            THEN FreedAt(m, pc[2]) < FreedAt(m, pc[1])
            ELSE FreedAt(m, pc[1]) < FreedAt(m, pc[2])

\* C14, amended: when a handle releases its root, a Link is freed after every
\* Leaf it was the only owner of and before every Link it was the only owner
\* of: Leaves go before their parent, Links are freed from the root downward.
C14_LeavesFirstLinksDownward ==
    Running =>
      \A h \in alive : LeavesFirstLinksLater(DestructBody(Machine(heap), s_[h]))

FreedDownward(m) ==
    /\ m.fault = "none"
    /\ \E pc \in FreedWithChild(m) :
         /\ heap[pc[2]].kind = "link"
         /\ FreedAt(m, pc[1]) < FreedAt(m, pc[2])
         /\ \E l \in Nodes :
              /\ heap[l].kind = "leaf" /\ SoleOwner(pc[2], l)
              /\ FreedAt(m, l) < FreedAt(m, pc[2])

\* the last owner of a Link releases it; the Link is the only owner of a Link
\* child, which is the only owner of a Leaf: the Leaf is freed before the
\* child, and the child after its parent
C14_Witness ==
    \E h \in alive :
      /\ s_[h] # NULL /\ heap[s_[h]].kind = "link" /\ heap[s_[h]].refcnt = 0
      /\ FreedDownward(DestructBody(Machine(heap), s_[h]))

\* r is what h.append(ptr, length) gave, a the root of h, units the length
\* units at ptr
AppendedBuffer(r, a, units) ==
    /\ r.m.fault = "none"
    /\ IF units = <<>> THEN r.node = a /\ r.m.allocs = <<>>
       ELSE IF a = NULL THEN Content(r.m.heap, r.node) = units
       ELSE /\ r.node # NULL /\ heap[r.node].kind = "free"
            /\ r.m.heap[r.node].kind = "link"
            /\ r.m.heap[r.node].left = a
            /\ r.m.heap[a].refcnt = heap[a].refcnt + 1
            /\ heap[r.m.heap[r.node].right].kind = "free"
            /\ r.m.heap[r.m.heap[r.node].right].kind = "leaf"
            /\ r.m.heap[r.node].size = Wrap(heap[a].size + Len(units))
            /\ Content(r.m.heap, r.node) = Content(heap, a) \o units

\* C15: append(ptr, length) does what the other overloads of append do: for
\* a handle h that is not empty and length > 0 it returns a new Link of the
\* retained root of h and a fresh Leaf over the length units at ptr, of size
\* h.size() + length and content h.str() followed by those units; for
\* length = 0 it returns h, and for an empty h a handle over the buffer.
C15_AppendBufferAppends ==
    Running =>
      \A h \in alive, str \in StrArgs, length \in 0..MaxLen :
        (length <= Len(str) /\ Size(Machine(heap), s_[h]) + length <= MaxLen)
        => AppendedBuffer(AppendPtrBody(Machine(heap), s_[h], str, length),
                          s_[h], SubSeq(str, 1, length))

\* the Links among the nodes m freed, in the order of freeing
FreedLinks(m) ==
    LET IsLink(n) == heap[n].kind = "link" IN SelectSeq(m.freed, IsLink)

\* node n is on the stack during one stretch of turns only, and once
StackedOnce(m, n) ==
    /\ \A i, j, k \in 1..Len(m.stacks) :
         (i < j /\ j < k /\ n \in Range(m.stacks[i]) /\ n \in Range(m.stacks[k]))
         => n \in Range(m.stacks[j])
    /\ \A i \in 1..Len(m.stacks) : NoDuplicates(m.stacks[i])

\* LinkNode::destroy ran in m and came to its end
DestroyEnded(m) ==
    /\ m.fault = "none" /\ m.depth = 0 /\ m.stackOk
    /\ m.stacks # <<>> /\ m.stacks[Len(m.stacks)] = <<>>
    /\ Len(m.stacks) = Len(FreedLinks(m)) + 1
    /\ Len(m.stacks) <= MaxNodes + 1
    /\ \A i \in 1..Len(FreedLinks(m)) :
         /\ m.stacks[i] # <<>>
         /\ FreedLinks(m)[i] = m.stacks[i][Len(m.stacks[i])]
    /\ \A n \in Nodes : StackedOnce(m, n)

\* C16: LinkNode::destroy ends with its stack empty, whatever graph of nodes
\* it runs on: every turn of its loop frees the Link at the top of the
\* stack, every entry of the stack is a live Link without owner, and no Link
\* is put on the stack twice.
C16_DestroyEndsWithEmptyStack ==
    Running =>
      \A h \in alive :
        (s_[h] # NULL /\ heap[s_[h]].kind = "link" /\ heap[s_[h]].refcnt = 0)
        => DestroyEnded(DestructBody(Machine(heap), s_[h]))

StackGrew(m) ==
    /\ m.fault = "none" /\ Len(FreedLinks(m)) >= 3
    /\ \E i \in 1..Len(m.stacks) : Len(m.stacks[i]) = 2
    /\ m.stacks[Len(m.stacks)] = <<>>

\* the last owner of a Link releases it, and both children of the Link are
\* Links without another owner: the stack holds two Links in the second turn
\* and is empty after the third
C16_Witness ==
    \E h \in alive :
      /\ s_[h] # NULL /\ heap[s_[h]].kind = "link" /\ heap[s_[h]].refcnt = 0
      /\ StackGrew(DestructBody(Machine(heap), s_[h]))

\* the Leaf occurrences under node n, from left to right
RECURSIVE Fringe(_, _)
Fringe(hp, n) ==
    IF hp[n].kind = "link" THEN Fringe(hp, hp[n].left) \o Fringe(hp, hp[n].right)
    ELSE <<n>>

\* the sum of the sizes of the first k Leaves of fr
RECURSIVE SizesBefore(_, _)
SizesBefore(fr, k) ==
    IF k = 0 THEN 0 ELSE SizesBefore(fr, k - 1) + heap[fr[k]].size

\* m is what flatten() of a Link left, fr the Leaf occurrences under the Link
CopiedInOrder(m, fr, size) ==
    Fits(m)
    => /\ m.fault = "none"
       /\ Len(m.copies) = Len(fr)
       /\ \A i \in 1..Len(fr) :
            m.copies[i] = [leaf |-> fr[i], at |-> SizesBefore(fr, i - 1)]
       /\ m.cursor = size

\* C17: LinkNode::flatten copies every Leaf occurrence under the root once,
\* from left to right, each to the output offset that is the sum of the
\* sizes of the Leaves to its left; it never pops its work list when that is
\* empty, and when the list is empty the cursor is at the size of the root.
C17_FlattenCopiesLeavesInOrder ==
    Running =>
      \A h \in alive :
        (s_[h] # NULL /\ heap[s_[h]].kind = "link")
        => CopiedInOrder(LinkFlatten(Machine(heap), s_[h]).m,
                         Fringe(heap, s_[h]), heap[s_[h]].size)

CopiedThree(m) ==
    /\ m.fault = "none" /\ Len(m.copies) = 3 /\ m.cursor = 3
    /\ m.copies[1].leaf = m.copies[2].leaf /\ m.copies[2].at = 1
    /\ m.copies[3].leaf # m.copies[2].leaf /\ m.copies[3].at = 2

\* the root of h is a Link whose right child is a Link, and one Leaf is both
\* its left child and the left child of that Link: flatten copies the Leaf
\* to offsets 0 and 1 and the third Leaf to offset 2
C17_Witness ==
    \E h \in alive :
      /\ s_[h] # NULL /\ heap[s_[h]].kind = "link"
      /\ heap[heap[s_[h]].right].kind = "link"
      /\ CopiedThree(LinkFlatten(Machine(heap), s_[h]).m)

\* 1 when n is node r, 0 when it is not
One(n, r) == IF n = r THEN 1 ELSE 0

\* r is what a.append(b) gave, a and b the roots of the operands
OperandsKept(r, a, b) ==
    Fits(r.m)
    => /\ r.m.fault = "none"
       /\ r.m.allocs = <<r.node>> /\ r.m.freed = <<>> /\ r.m.copied = 0
       /\ heap[r.node].kind = "free" /\ r.m.heap[r.node].kind = "link"
       /\ r.m.heap[r.node].left = a /\ r.m.heap[r.node].right = b
       /\ \A n \in Nodes \ {r.node} :
            r.m.heap[n] = [heap[n] EXCEPT !.refcnt = @ + One(n, a) + One(n, b)]
       /\ Content(r.m.heap, a) = Content(heap, a)
       /\ Content(r.m.heap, b) = Content(heap, b)

\* C18: a.append(b) with a and b not empty allocates one Link and changes no
\* node that existed, in size, children, buffer or offset, but for the owner
\* counts of the roots of a and b, which rise by one for each operand that
\* holds the root; a and b keep their content.
C18_AppendKeepsOperands ==
    Running =>
      \A a, b \in alive :
        (s_[a] # NULL /\ s_[b] # NULL)
        => OperandsKept(AppendBody(Machine(heap), s_[a], s_[b], "segv"),
                        s_[a], s_[b])

AppendSeen(r) == r.m.fault = "none" /\ Len(r.m.allocs) = 1

\* a holds a Link over a window, b holds the window, and a.append(b) is made
C18_Witness ==
    \E a, b \in alive :
      /\ s_[a] # NULL /\ heap[s_[a]].kind = "link" /\ HasWindow(heap, s_[a])
      /\ s_[b] # NULL /\ IsWindow(heap, s_[b])
      /\ AppendSeen(AppendBody(Machine(heap), s_[a], s_[b], "segv"))

\* the owners of node n in heap hp when handle x holds root and the other
\* handles in scope what s_ says
OwnersAfter(hp, x, root, n) ==
    Cardinality({h \in alive \ {x} : s_[h] = n}) + One(n, root)
    + Cardinality({l \in Nodes : hp[l].kind = "link" /\ hp[l].left = n})
    + Cardinality({l \in Nodes : hp[l].kind = "link" /\ hp[l].right = n})

\* r is what x = y gave, rec what recursive release of the root of x leaves
Assigned(r, rec, x, y) ==
    /\ r.m.fault = "none" /\ r.root = s_[y] /\ r.m.allocs = <<>>
    /\ Range(r.m.freed) = Range(rec.freed) /\ NoDuplicates(r.m.freed)
    /\ \A n \in Nodes :
         IF n \in Range(rec.freed) THEN r.m.heap[n].kind = "free"
         ELSE r.m.heap[n] = [rec.heap[n] EXCEPT !.refcnt = @ + One(n, s_[y])]
    /\ \A n \in Nodes :
         r.m.heap[n].kind # "free"
         => r.m.heap[n].refcnt = OwnersAfter(r.m.heap, x, r.root, n) - 1
    /\ Tree(heap, s_[y]) \cap Range(r.m.freed) = {}
    /\ Content(r.m.heap, s_[y]) = Content(heap, s_[y])

Unassigned(r, x) ==
    r.m.fault = "none" /\ r.root = s_[x] /\ r.m.heap = heap /\ r.m.freed = <<>>

\* C19: x = y releases the old root of x once and retains the root of y
\* once, whether x and y are empty or not; x = x changes nothing; and no node
\* that y still refers to is freed, also when x and y hold one root or the
\* root of y is a node of the old tree of x.
C19_AssignReleasesAndRetainsOnce ==
    Running =>
      \A x, y \in alive :
        IF x = y THEN Unassigned(AssignBody(Machine(heap), TRUE, s_[x], s_[x]), x)
        ELSE Assigned(AssignBody(Machine(heap), FALSE, s_[x], s_[y]),
                      DestructBody(Machine(heap), s_[x]), x, y)

AssignFreed(r, x, y) ==
    /\ r.m.fault = "none" /\ s_[x] \in Range(r.m.freed)
    /\ r.m.heap[s_[y]].refcnt = heap[s_[y]].refcnt

\* x is the last owner of a Link and y holds a child of that Link: x = y
\* frees the Link and leaves the child, y's root, with as many owners
C19_Witness ==
    \E x, y \in alive :
      /\ s_[x] # NULL /\ heap[s_[x]].kind = "link" /\ heap[s_[x]].refcnt = 0
      /\ s_[y] # NULL /\ s_[y] \in {heap[s_[x]].left, heap[s_[x]].right}
      /\ heap[s_[x]].left # heap[s_[x]].right
      /\ AssignFreed(AssignBody(Machine(heap), FALSE, s_[x], s_[y]), x, y)

Rejected(r) == r.m.fault = "assert" /\ r.node = NULL /\ r.m.allocs = <<>>

\* C20: with size_type arithmetic modulo 2^w, the test pos + length <= size()
\* of substr rejects every pos and length whose range [pos, pos + length) is
\* not within [0, size()): no such request gets to the making of a window.
C20_SubstrRejectsOutOfRange ==
    Running =>
      \A h \in alive, pos \in 0..(SizeMod - 1), length \in 0..(SizeMod - 1) :
        (s_[h] # NULL /\ pos + length > heap[s_[h]].size)
        => Rejected(SubstrBody(Machine(heap), s_[h], pos, length, "segv"))

====
